---- MODULE Spec2Model ----
(***************************************************************************)
(* Minesweeper: the board engine (class Board of Minesweeper.py), the      *)
(* classified view handed to the solver (MinesweeperGUI.get_solver_board)  *)
(* and the constraint solver (check / solution of Minesweeper_AutoPlay.py).*)
(* V2.0 carries the same Board and the same solver, line for line.         *)
(* Spec is the Board under its public operations; SpecGUI is the window    *)
(* (MinesweeperGUI of Minesweeper.py): clicks, AI Step, new game, settings.*)
(***************************************************************************)
EXTENDS Integers, Sequences, FiniteSets, TLC

\* ------------------------------------------------------------------ bounds
\* Boards of at most MaxCells cells (rows * cols <= MaxCells), at most
\* MaxMines requested mines, at most MaxFlags flags standing at a time.
\* Spec takes the wide ones (rows <= cols); the window specifications take
\* wide and tall ones.
MaxCells == 6
MaxMines == 2
MaxFlags == 2
\* Views and boards of at most MaxViewCells cells where a pure function is
\* checked on every input (SpecView, SpecSolver).
MaxViewCells == 4
\* The _autoplay_loop frames the interpreter's recursion limit leaves room
\* for.
MaxDepth == 3

\* ------------------------------------------------------- program constants
MINE == -1
FLAGGED == "F"
UNSEEN == "#"
BOMB == "*"
REVEAL == 0
FLAG == 1
\* General_variables.AUTOPLAY_LOOP_FOR_EVER (V2.0): looping disabled.
AUTOPLAY_LOOP_FOR_EVER == FALSE

VARIABLES
    rows,         \* Board.rows
    cols,         \* Board.cols
    mines_count,  \* Board.mines_count
    mines,        \* Board.mines: the set of mine coordinates
    revealed,     \* Board.revealed[r][c]
    flagged,      \* Board.flagged[r][c]
    board,        \* Board.board[r][c]: MINE or the adjacent-mine count
    placed,       \* Board.placed
    game_over,    \* Board.game_over
    victory,      \* Board.victory
    last,         \* the call that produced this state (history, not program state)
    solver_in,    \* the view handed to solution (autoplay_step's solver_board)
    solver_out,   \* what that call of solution gave
    autoplay_running,  \* MinesweeperGUI.autoplay_running (V2.0)
    pending,      \* the _autoplay_loop invocation about to run (V2.0): "none",
                  \* "timer" (scheduled with master.after) or "call" (called
                  \* by toggle_autoplay from inside _autoplay_loop)
    depth,        \* the _autoplay_loop frames that have not returned (V2.0)
    version,      \* the window that runs: 1 (Minesweeper.py) or 2 (V2.0)
    call          \* the reveal call under way, where its loop is followed
                  \* pop by pop: pc ("idle" or "loop"), the stack, and as
                  \* history the cells it marked revealed (opened), those
                  \* it expanded and the number of pops

boardvars == <<rows, cols, mines_count, mines, revealed, flagged, board, placed,
               game_over, victory>>
solvervars == <<solver_in, solver_out>>
loopvars == <<autoplay_running, pending, depth, version>>
vars == <<rows, cols, mines_count, mines, revealed, flagged, board, placed,
          game_over, victory, last, solver_in, solver_out, autoplay_running,
          pending, depth, version, call>>

\* ------------------------------------------------------------------- grid
\* range(rows) x range(cols), the index set of the three parallel 2D lists.
Cells == (0 .. rows - 1) \X (0 .. cols - 1)

in_bounds(r, c) == 0 <= r /\ r < rows /\ 0 <= c /\ c < cols

\* The (dr, dc) pairs in the order the two nested loops of neighbors visit
\* them, (0, 0) skipped.
Offsets ==
    << <<-1, -1>>, <<-1, 0>>, <<-1, 1>>, <<0, -1>>, <<0, 1>>, <<1, -1>>, <<1, 0>>,
       <<1, 1>> >>

\* Board.neighbors: the in-bounds neighbours, in generation order.
neighbors(r, c) ==
    LET cand == [i \in 1 .. Len(Offsets) |-> <<r + Offsets[i][1], c + Offsets[i][2]>>]
        ok(p) == in_bounds(p[1], p[2])
    IN  SelectSeq(cand, ok)

Range(s) == {s[i] : i \in 1 .. Len(s)}

\* -------------------------------------------------------------- placement
\* Faulty variant of safe_zone: only the clicked cell is kept mine-free.
safe_zone_cell_only(safe_r, safe_c) == {<<safe_r, safe_c>>}

safe_zone(safe_r, safe_c) == {<<safe_r, safe_c>>} \cup Range(neighbors(safe_r, safe_c))

available(safe_r, safe_c) == {pos \in Cells : pos \notin safe_zone(safe_r, safe_c)}

\* Faulty variant of sample: drawing with replacement, so that the set built
\* from the draws can hold fewer than k cells.
sample_with_repeats(population, k) ==
    {ms \in SUBSET population : Cardinality(ms) <= k /\ (ms = {} => k = 0)}

\* random.sample(available, mines_count): any mines_count distinct cells of
\* available; the empty set of outcomes stands for the ValueError it raises
\* when mines_count exceeds len(available).
sample(population, k) == {ms \in SUBSET population : Cardinality(ms) = k}

\* random.sample raises ValueError when the sample is larger than the
\* population or negative.
sample_raises(population, k) == k < 0 \/ k > Cardinality(population)

\* Faulty variant of counts: only the four orthogonal neighbours are counted.
counts_orthogonal(ms) ==
    [p \in Cells |->
        IF p \in ms
            THEN MINE
            ELSE Cardinality({q \in ms : \/ q[1] = p[1] /\ q[2] - p[2] \in {-1, 1}
                                         \/ q[2] = p[2] /\ q[1] - p[1] \in {-1, 1}})]

\* The count loop of place_mines, for the mine set ms.
counts(ms) ==
    [p \in Cells |->
        IF p \in ms
            THEN MINE
            ELSE LET nb == neighbors(p[1], p[2])
                 IN  Cardinality({i \in 1 .. Len(nb) : nb[i] \in ms})]

\* ----------------------------------------------------------------- reveal
\* self.revealed[r][c] = True
mark(rev, p) == [rev EXCEPT ![p] = TRUE]

\* Faulty variant of expands: numbered cells propagate too.
expands_always(b, p) == TRUE

\* The test guarding the expansion of a popped cell: self.board[cr][cc] == 0.
expands(b, p) == b[p] = 0

\* Faulty variant of push_ok: flags are not looked at.
push_ok_ignores_flags(rev, p) == ~rev[p]

\* The test guarding stack.append in the cascade.
push_ok(rev, p) == ~rev[p] /\ ~flagged[p]

\* The while-stack loop of reveal: stack.pop() takes the last element.
RECURSIVE cascade(_, _, _)
cascade(stack, rev, b) ==
    IF stack = <<>>
        THEN rev
        ELSE LET cur == stack[Len(stack)]
                 rest == SubSeq(stack, 1, Len(stack) - 1)
             IN  IF rev[cur]
                     THEN cascade(rest, rev, b)
                     ELSE LET rev2 == mark(rev, cur)
                              ok(p) == push_ok(rev2, p)
                          IN  IF expands(b, cur)
                                  THEN cascade(rest \o SelectSeq(neighbors(cur[1], cur[2]), ok),
                                               rev2, b)
                                  ELSE cascade(rest, rev2, b)

\* Faulty variant of flood: the cascade fills a fresh grid, which then
\* replaces the revealed grid.
flood_fresh_grid(r, c, rev, b) == cascade(<< <<r, c>> >>, [p \in Cells |-> FALSE], b)

\* stack = [(r, c)] and the loop: the revealed grid the cascade from (r, c)
\* leaves.
flood(r, c, rev, b) == cascade(<< <<r, c>> >>, rev, b)

revealed_count(rev) == Cardinality({p \in Cells : rev[p]})

\* Faulty variant of check_victory: the test counts the cells that are not
\* revealed against the mines, and is off by one.
check_victory_off_by_one(rev, over, vic) ==
    IF over
        THEN <<over, vic>>
        ELSE IF rows * cols - revealed_count(rev) = mines_count + 1
                 THEN <<TRUE, TRUE>>
                 ELSE <<over, vic>>

\* Faulty variant of check_victory: the mines are not subtracted.
check_victory_all_cells(rev, over, vic) ==
    IF over
        THEN <<over, vic>>
        ELSE IF revealed_count(rev) = rows * cols THEN <<TRUE, TRUE>> ELSE <<over, vic>>

\* Board.check_victory on the revealed grid rev with game_over = over and
\* victory = vic: the pair <<game_over, victory>> it leaves.
check_victory(rev, over, vic) ==
    IF over
        THEN <<over, vic>>
        ELSE IF revealed_count(rev) = rows * cols - mines_count
                 THEN <<TRUE, TRUE>>
                 ELSE <<over, vic>>

\* ------------------------------------------------------- classified view
\* str(val) for the counts 0..8, and int(s): the decimal digits; int raises
\* ValueError on any other symbol.
Digits == <<"0", "1", "2", "3", "4", "5", "6", "7", "8">>

str(val) == Digits[val + 1]

is_int(s) == \E i \in 1 .. Len(Digits) : Digits[i] = s

int(s) == (CHOOSE i \in 1 .. Len(Digits) : Digits[i] = s) - 1

\* Faulty variant of solver_board: the mine test comes before the revealed
\* test, so that an unrevealed mine shows.
solver_board_peeks(rev, flg, b) ==
    [p \in Cells |->
        IF flg[p]
            THEN FLAGGED
            ELSE IF b[p] = MINE
                     THEN BOMB
                     ELSE IF ~rev[p] THEN UNSEEN ELSE str(b[p])]

\* Faulty variant of solver_board: the flag test is left out, so that a
\* flagged cell shows as Unseen.
solver_board_hides_flags(rev, flg, b) ==
    [p \in Cells |->
        IF ~rev[p]
            THEN UNSEEN
            ELSE IF b[p] = MINE THEN BOMB ELSE str(b[p])]

\* MinesweeperGUI.get_solver_board for the board fields given.
solver_board(rev, flg, b) ==
    [p \in Cells |->
        IF flg[p]
            THEN FLAGGED
            ELSE IF ~rev[p]
                     THEN UNSEEN
                     ELSE IF b[p] = MINE THEN BOMB ELSE str(b[p])]

get_solver_board == solver_board(revealed, flagged, board)

\* ----------------------------------------------------------------- solver
\* What a call of check or solution gives: kind "none" is check's -1, "move"
\* the pair (action, coords), "ValueError" the exception int() raises and
\* "Exception" the one solution raises when no unseen cell is left.
NoResult == [kind |-> "none", action |-> -1, coords |-> <<>>]
\* Faulty variant of Move: only the first coordinate is returned.
Move_first_only(action, coords) ==
    [kind |-> "move", action |-> action, coords |-> <<coords[1]>>]

Move(action, coords) == [kind |-> "move", action |-> action, coords |-> coords]
Raise(what) == [kind |-> what, action |-> -1, coords |-> <<>>]

\* Faulty variant of window: range(t - 1, t + 1) x range(k - 1, k + 1), the
\* last row and column of the neighbourhood left out.
window_short(t, k) == [x \in 1 .. 4 |-> <<(t - 1) + ((x - 1) \div 2), (k - 1) + ((x - 1) % 2)>>]

\* The cells range(t - 1, t + 2) x range(k - 1, k + 2), in loop order.
window(t, k) == [x \in 1 .. 9 |-> <<(t - 1) + ((x - 1) \div 3), (k - 1) + ((x - 1) % 3)>>]

\* Faulty variant of check_in: row 0 and column 0 are left out.
check_in_strict(i, j, m, n) == i > 0 /\ j > 0 /\ i < m /\ j < n

\* The bounds test of check's loop.
check_in(i, j, m, n) == i >= 0 /\ j >= 0 /\ i < m /\ j < n

\* Faulty variant of check: the unseen list outlives the call (a default
\* argument unseen=[]), so it starts with what the last answer returned.
check_keeps_list(view, t, k, m, n) ==
    LET target == view[<<t, k>>]
    IN  IF target = UNSEEN \/ target = FLAGGED
            THEN NoResult
            ELSE IF ~is_int(target)
            THEN Raise("ValueError")
            ELSE LET target_number == int(target) - int("0")
                     inside(p) == check_in(p[1], p[2], m, n)
                     near == SelectSeq(window(t, k), inside)
                     is_unseen(p) == view[p] = UNSEEN
                     kept == IF solver_out.kind = "move" THEN solver_out.coords ELSE <<>>
                     unseen == kept \o SelectSeq(near, is_unseen)
                     nflagged == Cardinality({x \in 1 .. Len(near) : view[near[x]] = FLAGGED})
                 IN  IF Len(unseen) # 0 /\ nflagged = target_number
                         THEN Move(REVEAL, unseen)
                         ELSE IF Len(unseen) # 0 /\ target_number - nflagged = Len(unseen)
                                  THEN Move(FLAG, unseen)
                                  ELSE NoResult

\* check(board, t, k, m, n).
check(view, t, k, m, n) ==
    LET target == view[<<t, k>>]
    IN  IF target = UNSEEN \/ target = FLAGGED
            THEN NoResult
            ELSE IF ~is_int(target)
            THEN Raise("ValueError")
            ELSE LET target_number == int(target) - int("0")
                     inside(p) == check_in(p[1], p[2], m, n)
                     near == SelectSeq(window(t, k), inside)
                     is_unseen(p) == view[p] = UNSEEN
                     unseen == SelectSeq(near, is_unseen)
                     nflagged == Cardinality({x \in 1 .. Len(near) : view[near[x]] = FLAGGED})
                 IN  IF Len(unseen) # 0 /\ nflagged = target_number
                         THEN Move(REVEAL, unseen)
                         ELSE IF Len(unseen) # 0 /\ target_number - nflagged = Len(unseen)
                                  THEN Move(FLAG, unseen)
                                  ELSE NoResult

\* The double loop of solution from cell number idx on (row-major), with
\* doomsday_plan as it stands.
RECURSIVE scan(_, _, _, _, _)
scan(view, m, n, idx, doomsday_plan) ==
    IF idx >= m * n
        THEN IF doomsday_plan = <<-1, -1>>
                 THEN Raise("Exception")
                 ELSE Move(REVEAL, <<doomsday_plan>>)
        ELSE LET i == idx \div n
                 j == idx % n
                 result == check(view, i, j, m, n)
                 plan == IF view[<<i, j>>] = UNSEEN THEN <<i, j>> ELSE doomsday_plan
             IN  IF result.kind = "ValueError"
                     THEN result
                     ELSE IF result.kind # "none"
                              THEN result
                              ELSE scan(view, m, n, idx + 1, plan)

\* solution(board, m, n).
solution(view, m, n) == scan(view, m, n, 0, <<-1, -1>>)

\* ------------------------------------------------------------ operations
\* The record of the call that produced a state.  how: "done" when the call
\* ran to its end, "raised" when place_mines raised, and for an early return
\* the first true operand of the guard ("over", "flagged", "revealed").
\* cell is the target of a reveal that passed the guard (<<0, 0>> otherwise);
\* first says that the call placed the mines.  The window's handlers record
\* their own name as op, with how "caught" when autoplay_step caught what
\* solution raised and "invalid" when apply_settings refused the texts.
Call(op, cell, how, first) == [op |-> op, cell |-> cell, how |-> how, first |-> first]

\* Faulty variant of hits_mine: row and column swapped in the lookup.
hits_mine_swapped(p, ms) == <<p[2], p[1]>> \in ms

\* The test of reveal's mine branch: (r, c) in self.mines.
hits_mine(p, ms) == p \in ms

\* No reveal call is under way.
Idle == [pc |-> "idle", stack |-> <<>>, opened |-> <<>>, expanded |-> <<>>, pops |-> 0]

\* The mutable fields of the Board object, as one value.
BoardNow ==
    [mines |-> mines, revealed |-> revealed, flagged |-> flagged, board |-> board,
     placed |-> placed, game_over |-> game_over, victory |-> victory]

\* What a call leaves: the fields, and how the call ended.
Outcome(st, how, first) == [st |-> st, how |-> how, first |-> first]

\* Faulty variant of reveal_returns: the flag on the target is not looked at.
reveal_returns_ignores_flag(st, r, c) == st.game_over \/ st.revealed[<<r, c>>]

\* Faulty variant of toggle_returns: game_over is not looked at.
toggle_returns_ignores_over(st, r, c) == st.revealed[<<r, c>>]

\* The early-return tests of reveal and of toggle_flag.
reveal_returns(st, r, c) ==
    st.game_over \/ st.flagged[<<r, c>>] \/ st.revealed[<<r, c>>]

toggle_returns(st, r, c) == st.game_over \/ st.revealed[<<r, c>>]

\* Board.reveal(r, c) on the fields st: the outcomes the call can have, one
\* for each layout place_mines can draw.  place_mines raises before it
\* assigns anything.  (The cascade reads the flags through push_ok; reveal
\* does not change them.)
reveal(st, r, c) ==
    IF reveal_returns(st, r, c)
        THEN {Outcome(st, IF st.game_over THEN "over"
                          ELSE IF st.flagged[<<r, c>>] THEN "flagged" ELSE "revealed",
                      FALSE)}
        ELSE IF ~st.placed /\ sample_raises(available(r, c), mines_count)
        THEN {Outcome(st, "raised", FALSE)}
        ELSE {LET b == IF st.placed THEN st.board ELSE counts(ms)
                  hit == hits_mine(<<r, c>>, ms)
                  rev == IF hit THEN mark(st.revealed, <<r, c>>)
                                ELSE flood(r, c, st.revealed, b)
                  end == IF hit THEN <<TRUE, FALSE>>
                                ELSE check_victory(rev, st.game_over, st.victory)
              IN  Outcome([st EXCEPT !.mines = ms, !.board = b, !.placed = TRUE,
                                     !.revealed = rev, !.game_over = end[1],
                                     !.victory = end[2]],
                          "done", ~st.placed)
              : ms \in (IF st.placed THEN {st.mines}
                                     ELSE sample(available(r, c), mines_count))}

\* Board.toggle_flag(r, c) on the fields st.
toggle_flag(st, r, c) ==
    IF toggle_returns(st, r, c)
        THEN Outcome(st, IF st.game_over THEN "over" ELSE "revealed", FALSE)
        ELSE LET end == check_victory(st.revealed, st.game_over, st.victory)
             IN  Outcome([st EXCEPT !.flagged[<<r, c>>] = ~@, !.game_over = end[1],
                                    !.victory = end[2]],
                         "done", FALSE)

\* The Board object's fields become st; its dimensions and mine count stay.
Install(st) ==
    /\ mines' = st.mines
    /\ revealed' = st.revealed
    /\ flagged' = st.flagged
    /\ board' = st.board
    /\ placed' = st.placed
    /\ game_over' = st.game_over
    /\ victory' = st.victory
    /\ UNCHANGED <<rows, cols, mines_count>>

\* A call of Board.reveal(r, c).
Reveal(r, c) ==
    /\ in_bounds(r, c)
    /\ \E o \in reveal(BoardNow, r, c) :
         /\ Install(o.st)
         /\ last' = Call("reveal",
                         IF o.how \in {"done", "raised"} THEN <<r, c>> ELSE <<0, 0>>,
                         o.how, o.first)
    /\ UNCHANGED <<solvervars, loopvars, call>>

\* A call of Board.toggle_flag(r, c).  The model keeps at most MaxFlags flags
\* standing.
ToggleFlag(r, c) ==
    /\ in_bounds(r, c)
    /\ flagged[<<r, c>>] \/ Cardinality({p \in Cells : flagged[p]}) < MaxFlags
    /\ LET o == toggle_flag(BoardNow, r, c)
       IN  /\ Install(o.st)
           /\ last' = Call("toggle_flag", <<0, 0>>, o.how, FALSE)
    /\ UNCHANGED <<solvervars, loopvars, call>>

\* Faulty variant of Reset: placed is left as it was.
Reset_keeps_placed ==
    /\ mines' = {}
    /\ revealed' = [p \in Cells |-> FALSE]
    /\ flagged' = [p \in Cells |-> FALSE]
    /\ board' = [p \in Cells |-> 0]
    /\ game_over' = FALSE
    /\ victory' = FALSE
    /\ last' = Call("reset", <<0, 0>>, "done", FALSE)
    /\ UNCHANGED <<rows, cols, mines_count, placed, solvervars, loopvars, call>>

\* Board.reset().
Reset ==
    /\ mines' = {}
    /\ revealed' = [p \in Cells |-> FALSE]
    /\ flagged' = [p \in Cells |-> FALSE]
    /\ board' = [p \in Cells |-> 0]
    /\ placed' = FALSE
    /\ game_over' = FALSE
    /\ victory' = FALSE
    /\ last' = Call("reset", <<0, 0>>, "done", FALSE)
    /\ UNCHANGED <<rows, cols, mines_count, solvervars, loopvars, call>>

\* Board.__init__(rows, cols, mines) followed by reset().
Construct ==
    /\ rows \in 1 .. MaxCells
    /\ cols \in 1 .. MaxCells
    /\ rows * cols <= MaxCells
    /\ mines_count \in 0 .. MaxMines
    /\ mines = {}
    /\ revealed = [p \in Cells |-> FALSE]
    /\ flagged = [p \in Cells |-> FALSE]
    /\ board = [p \in Cells |-> 0]
    /\ placed = FALSE
    /\ game_over = FALSE
    /\ victory = FALSE
    /\ last = Call("init", <<0, 0>>, "done", FALSE)
    /\ solver_in = <<>>
    /\ solver_out = NoResult
    /\ autoplay_running = FALSE
    /\ pending = "none"
    /\ depth = 0
    /\ call = Idle

\* The boards of Spec are taken wide (rows <= cols): Board treats its two
\* axes alike, so a tall board goes through the transposed states of its
\* wide twin.
Init == Construct /\ rows <= cols /\ version = 1

Next ==
    \/ \E r \in 0 .. rows - 1, c \in 0 .. cols - 1 : Reveal(r, c)
    \/ \E r \in 0 .. rows - 1, c \in 0 .. cols - 1 : ToggleFlag(r, c)
    \/ Reset

Spec == Init /\ [][Next]_vars

\* -------------------------------------------- reveal, one pop at a time
\* Faulty variant of skips: a popped cell is never skipped.
skips_never(rev, p) == FALSE

\* The test after stack.pop(): if self.revealed[cr][cc]: continue.
skips(rev, p) == rev[p]

\* A call of Board.reveal(r, c) up to its while loop: the early return,
\* place_mines, the mine branch, and stack = [(r, c)].
BeginReveal(r, c) ==
    /\ call.pc = "idle"
    /\ in_bounds(r, c)
    /\ UNCHANGED <<rows, cols, mines_count, flagged, solvervars, loopvars>>
    /\ IF reveal_returns(BoardNow, r, c)
         THEN /\ UNCHANGED <<mines, revealed, board, placed, game_over, victory, call>>
              /\ last' = Call("reveal", <<0, 0>>,
                              IF game_over THEN "over"
                              ELSE IF flagged[<<r, c>>] THEN "flagged" ELSE "revealed",
                              FALSE)
         ELSE IF ~placed /\ sample_raises(available(r, c), mines_count)
         THEN /\ UNCHANGED <<mines, revealed, board, placed, game_over, victory, call>>
              /\ last' = Call("reveal", <<r, c>>, "raised", FALSE)
         ELSE \E ms \in (IF placed THEN {mines} ELSE sample(available(r, c), mines_count)) :
                 /\ mines' = ms
                 /\ board' = IF placed THEN board ELSE counts(ms)
                 /\ placed' = TRUE
                 /\ IF hits_mine(<<r, c>>, ms)
                      THEN /\ revealed' = mark(revealed, <<r, c>>)
                           /\ game_over' = TRUE
                           /\ victory' = FALSE
                           /\ UNCHANGED call
                           /\ last' = Call("reveal", <<r, c>>, "done", ~placed)
                      ELSE /\ UNCHANGED <<revealed, game_over, victory>>
                           /\ call' = [Idle EXCEPT !.pc = "loop", !.stack = << <<r, c>> >>]
                           /\ last' = Call("reveal", <<r, c>>, "loop", ~placed)

\* One iteration of while stack: pop, skip a cell that is revealed, else
\* mark it and, if it counts zero, push its unrevealed, unflagged neighbours.
Pop ==
    /\ call.pc = "loop"
    /\ call.stack # <<>>
    /\ LET cur == call.stack[Len(call.stack)]
           rest == SubSeq(call.stack, 1, Len(call.stack) - 1)
       IN  IF skips(revealed, cur)
               THEN /\ UNCHANGED revealed
                    /\ call' = [call EXCEPT !.stack = rest, !.pops = @ + 1]
               ELSE LET rev2 == mark(revealed, cur)
                        ok(p) == push_ok(rev2, p)
                    IN  /\ revealed' = rev2
                        /\ call' = IF expands(board, cur)
                                       THEN [call EXCEPT
                                               !.stack = rest \o SelectSeq(neighbors(cur[1], cur[2]), ok),
                                               !.opened = Append(@, cur),
                                               !.expanded = Append(@, cur),
                                               !.pops = @ + 1]
                                       ELSE [call EXCEPT !.stack = rest,
                                                         !.opened = Append(@, cur),
                                                         !.pops = @ + 1]
    /\ UNCHANGED <<rows, cols, mines_count, mines, flagged, board, placed,
                   game_over, victory, last, solvervars, loopvars>>

\* The loop is left with the stack empty: self.check_victory(), and reveal
\* returns.
EndReveal ==
    /\ call.pc = "loop"
    /\ call.stack = <<>>
    /\ LET end == check_victory(revealed, game_over, victory)
       IN  /\ game_over' = end[1]
           /\ victory' = end[2]
    /\ call' = Idle
    /\ last' = Call("reveal", last.cell, "done", last.first)
    /\ UNCHANGED <<rows, cols, mines_count, mines, revealed, flagged, board, placed,
                   solvervars, loopvars>>

NextCascade ==
    \/ \E r \in 0 .. rows - 1, c \in 0 .. cols - 1 : BeginReveal(r, c)
    \/ Pop
    \/ EndReveal
    \/ call.pc = "idle" /\ \E r \in 0 .. rows - 1, c \in 0 .. cols - 1 : ToggleFlag(r, c)

\* The Board with reveal followed through its loop; no other call starts
\* while a reveal is under way.
SpecCascade == Init /\ [][NextCascade]_vars

\* ------------------------------------------------------------ the window
\* MinesweeperGUI.end_game: every cell of the Board's own revealed grid is
\* set to True (update_ui and the message box change no state).
end_game(st) == [st EXCEPT !.revealed = [p \in Cells |-> TRUE]]

\* The tail of left_click, right_click and autoplay_step:
\* if self.board.game_over: self.end_game().
finish(st) == IF st.game_over THEN end_game(st) ELSE st

\* MinesweeperGUI.left_click(r, c); an exception raised by reveal leaves the
\* handler at once.
left_click(st, r, c) ==
    {IF o.how = "raised" THEN o ELSE Outcome(finish(o.st), o.how, o.first) :
        o \in reveal(st, r, c)}

\* MinesweeperGUI.right_click(r, c).
right_click(st, r, c) ==
    LET o == toggle_flag(st, r, c) IN Outcome(finish(o.st), o.how, FALSE)

\* The for loop of autoplay_step, calling reveal whatever the action is.
RECURSIVE apply_coords_reveals(_, _, _, _)
apply_coords_reveals(action, coords, i, o) ==
    IF i > Len(coords) \/ o.how = "raised"
        THEN {o}
        ELSE LET p == coords[i]
             IN  UNION {apply_coords_reveals(action, coords, i + 1, n) :
                          n \in reveal(o.st, p[1], p[2])}

\* The for loop of autoplay_step from the i-th coordinate on: reveal for
\* action 0, toggle_flag for action 1, one call after the other.
RECURSIVE apply_coords(_, _, _, _)
apply_coords(action, coords, i, o) ==
    IF i > Len(coords) \/ o.how = "raised"
        THEN {o}
        ELSE LET p == coords[i]
                 after == IF action = REVEAL THEN reveal(o.st, p[1], p[2])
                          ELSE IF action = FLAG THEN {toggle_flag(o.st, p[1], p[2])}
                          ELSE {o}
             IN  UNION {apply_coords(action, coords, i + 1, n) : n \in after}

\* MinesweeperGUI.autoplay_step(): whatever solution raises is caught and
\* shown, and the step ends there ("caught").
autoplay_step(st) ==
    LET res == solution(solver_board(st.revealed, st.flagged, st.board), rows, cols)
    IN  IF res.kind # "move"
            THEN {Outcome(st, "caught", FALSE)}
            ELSE {IF o.how = "raised" THEN o ELSE Outcome(finish(o.st), "done", FALSE) :
                     o \in apply_coords(res.action, res.coords, 1, Outcome(st, "done", FALSE))}

\* Board(r, c, m): the object new_game puts in place of the old one.
NewBoard(r, c, m) ==
    /\ rows' = r
    /\ cols' = c
    /\ mines_count' = m
    /\ mines' = {}
    /\ revealed' = [p \in (0 .. r - 1) \X (0 .. c - 1) |-> FALSE]
    /\ flagged' = [p \in (0 .. r - 1) \X (0 .. c - 1) |-> FALSE]
    /\ board' = [p \in (0 .. r - 1) \X (0 .. c - 1) |-> 0]
    /\ placed' = FALSE
    /\ game_over' = FALSE
    /\ victory' = FALSE

\* The texts typed into the three settings fields: the 1 x MaxCells strip
\* with MaxMines mines, the 2 x (MaxCells / 2) board with one mine, and a
\* text that is no number.
SettingsEntries ==
    {<<str(1), str(MaxCells), str(MaxMines)>>,
     <<str(2), str(MaxCells \div 2), str(1)>>,
     <<"x", "1", "0">>}

LeftClick(r, c) ==
    /\ in_bounds(r, c)
    /\ \E o \in left_click(BoardNow, r, c) :
         /\ Install(o.st)
         /\ last' = Call("left_click", <<0, 0>>, o.how, FALSE)
    /\ UNCHANGED <<solvervars, loopvars, call>>

RightClick(r, c) ==
    /\ in_bounds(r, c)
    /\ flagged[<<r, c>>] \/ Cardinality({p \in Cells : flagged[p]}) < MaxFlags
    /\ LET o == right_click(BoardNow, r, c)
       IN  /\ Install(o.st)
           /\ last' = Call("right_click", <<0, 0>>, o.how, FALSE)
    /\ UNCHANGED <<solvervars, loopvars, call>>

AutoplayStep ==
    /\ \E o \in autoplay_step(BoardNow) :
         /\ Install(o.st)
         /\ last' = Call("autoplay_step", <<0, 0>>, o.how, FALSE)
    /\ UNCHANGED <<solvervars, loopvars, call>>

\* MinesweeperGUI.new_game().
NewGame ==
    /\ NewBoard(rows, cols, mines_count)
    /\ last' = Call("new_game", <<0, 0>>, "done", FALSE)
    /\ UNCHANGED <<solvervars, loopvars, call>>

\* MinesweeperGUI.apply_settings() with the field texts e.
ApplySettings(e) ==
    /\ UNCHANGED <<solvervars, loopvars, call>>
    /\ IF is_int(e[1]) /\ is_int(e[2]) /\ is_int(e[3])
         THEN /\ int(e[1]) * int(e[2]) <= MaxCells
              /\ NewBoard(int(e[1]), int(e[2]), int(e[3]))
              /\ last' = Call("apply_settings", <<0, 0>>, "done", FALSE)
         ELSE /\ UNCHANGED boardvars
              /\ last' = Call("apply_settings", <<0, 0>>, "invalid", FALSE)

NextGUI ==
    \/ \E r \in 0 .. rows - 1, c \in 0 .. cols - 1 : LeftClick(r, c)
    \/ \E r \in 0 .. rows - 1, c \in 0 .. cols - 1 : RightClick(r, c)
    \/ AutoplayStep
    \/ NewGame
    \/ \E e \in SettingsEntries : ApplySettings(e)

\* The window: a board of any size within the bounds (the settings fields
\* decide it), played with the mouse and the AI Step button.
InitGUI == Construct /\ version = 1

SpecGUI == InitGUI /\ [][NextGUI]_vars

\* ------------------------------------------- continuous AutoPlay (V2.0)
\* What a V2.0 handler leaves: the Board fields, autoplay_running, and how
\* the handler ended.
Left(st, running, how) == [st |-> st, running |-> running, how |-> how]

\* V2.0 autoplay_step(): on a finished game end_game() and return; else one
\* call for coords[0]; end_game() if that ended the game.  end_game sets
\* autoplay_running to False.  An exception raised by reveal leaves the
\* handler at once.
autoplay_step_v2(st, running) ==
    IF st.game_over
        THEN {Left(end_game(st), FALSE, "over")}
        ELSE LET res == solution(solver_board(st.revealed, st.flagged, st.board), rows, cols)
             IN  IF res.kind # "move"
                     THEN {Left(st, running, "caught")}
                     ELSE LET p == res.coords[1]
                              after == IF res.action = REVEAL THEN reveal(st, p[1], p[2])
                                       ELSE IF res.action = FLAG
                                                THEN {toggle_flag(st, p[1], p[2])}
                                                ELSE {Outcome(st, "done", FALSE)}
                          IN  {IF o.how = "raised"
                                   THEN Left(o.st, running, "raised")
                                   ELSE IF o.st.game_over /\ ~AUTOPLAY_LOOP_FOR_EVER
                                            THEN Left(end_game(o.st), FALSE, "done")
                                            ELSE Left(o.st, running, "done") : o \in after}

\* The Board fields of Board(rows, cols, mines_count).
FreshFields ==
    [mines |-> {}, revealed |-> [p \in Cells |-> FALSE],
     flagged |-> [p \in Cells |-> FALSE], board |-> [p \in Cells |-> 0],
     placed |-> FALSE, game_over |-> FALSE, victory |-> FALSE]

\* _autoplay_loop() entered with autoplay_running = True: what it leaves,
\* and the _autoplay_loop invocation it leads to ("timer": scheduled with
\* master.after; "call": toggle_autoplay, called after end_game, has set
\* autoplay_running = not False and calls _autoplay_loop itself).
loop_body(st, running) ==
    UNION {IF l.how = "raised"
               THEN {[l EXCEPT !.how = "none"]}
               ELSE IF l.st.game_over
               THEN IF AUTOPLAY_LOOP_FOR_EVER
                        THEN {Left(o.st, l.running,
                                   IF l.running /\ ~o.st.game_over /\ o.how # "raised"
                                       THEN "timer" ELSE "none") :
                                 o \in reveal(FreshFields, rows \div 2, cols \div 2)}
                        ELSE {Left(end_game(l.st), ~FALSE, "call")}
               ELSE {Left(l.st, l.running, IF l.running THEN "timer" ELSE "none")} :
           l \in autoplay_step_v2(st, running)}

\* The AutoPlay button: toggle_autoplay().
ToggleAutoplay ==
    /\ pending # "call"
    /\ \E running \in {~autoplay_running} :
          IF running
              THEN \E l \in loop_body(BoardNow, TRUE) :
                      /\ Install(l.st)
                      /\ autoplay_running' = l.running
                      /\ pending' = l.how
                      /\ depth' = IF l.how = "call" THEN depth + 1 ELSE 0
                      /\ last' = Call("toggle_autoplay", <<0, 0>>, "done", FALSE)
              ELSE /\ autoplay_running' = FALSE
                   /\ UNCHANGED <<boardvars, pending, depth>>
                   /\ last' = Call("toggle_autoplay", <<0, 0>>, "stopped", FALSE)
    /\ UNCHANGED <<solvervars, version, call>>

\* The timer set by master.after fires: _autoplay_loop().
AutoplayLoop ==
    /\ pending = "timer"
    /\ IF ~autoplay_running
         THEN /\ UNCHANGED <<boardvars, autoplay_running, depth>>
              /\ pending' = "none"
              /\ last' = Call("_autoplay_loop", <<0, 0>>, "stopped", FALSE)
         ELSE \E l \in loop_body(BoardNow, TRUE) :
                 /\ Install(l.st)
                 /\ autoplay_running' = l.running
                 /\ pending' = l.how
                 /\ depth' = IF l.how = "call" THEN depth + 1 ELSE 0
                 /\ last' = Call("_autoplay_loop", <<0, 0>>, "done", FALSE)
    /\ UNCHANGED <<solvervars, version, call>>

\* The call of _autoplay_loop made by toggle_autoplay inside _autoplay_loop.
\* With MaxDepth frames on the stack the call exceeds the recursion limit:
\* every frame is left through the RecursionError, at a point that leaves
\* autoplay_running either way.
NestedLoop ==
    /\ pending = "call"
    /\ IF depth >= MaxDepth
         THEN /\ UNCHANGED boardvars
              /\ autoplay_running' \in BOOLEAN
              /\ pending' = "none"
              /\ depth' = 0
              /\ last' = Call("_autoplay_loop", <<0, 0>>, "RecursionError", FALSE)
         ELSE \E l \in loop_body(BoardNow, TRUE) :
                 /\ Install(l.st)
                 /\ autoplay_running' = l.running
                 /\ pending' = l.how
                 /\ depth' = IF l.how = "call" THEN depth + 1 ELSE 0
                 /\ last' = Call("_autoplay_loop", <<0, 0>>, "nested", FALSE)
    /\ UNCHANGED <<solvervars, version, call>>

\* The New Game button (V2.0 new_game()).
NewGameV2 ==
    /\ pending # "call"
    /\ NewBoard(rows, cols, mines_count)
    /\ last' = Call("new_game", <<0, 0>>, "done", FALSE)
    /\ UNCHANGED <<solvervars, loopvars, call>>

InitV2 == Construct /\ version = 2

NextV2 ==
    \/ ToggleAutoplay
    \/ AutoplayLoop
    \/ NestedLoop
    \/ NewGameV2

\* The V2.0 window under continuous AutoPlay: the AutoPlay button, the
\* timer, and New Game.
SpecV2 == InitV2 /\ [][NextV2]_vars

\* ---------------------------------------------------- solver-driven play
\* The Auto Step button of the V2.0 window: autoplay_step().
AutoStepV2 ==
    /\ \E l \in autoplay_step_v2(BoardNow, autoplay_running) :
         /\ Install(l.st)
         /\ autoplay_running' = l.running
         /\ last' = Call("autoplay_step", <<0, 0>>, l.how, FALSE)
    /\ UNCHANGED <<solvervars, pending, depth, version, call>>

InitAuto == Construct /\ version \in {1, 2}

NextAuto ==
    \/ version = 1 /\ AutoplayStep
    \/ version = 2 /\ AutoStepV2
    \/ \E r \in 0 .. rows - 1, c \in 0 .. cols - 1 : RightClick(r, c)
    \/ NewGame

\* Either window played by its Auto Step button alone, with flags the
\* player sets or clears by right clicks, and New Game.
SpecAuto == InitAuto /\ [][NextAuto]_vars

\* ------------------------------------------------------ the 3 x 3 board
\* Board(3, 3, 1): the board of the worked scenario.
Init3x3 ==
    /\ rows = 3
    /\ cols = 3
    /\ mines_count = 1
    /\ mines = {}
    /\ revealed = [p \in Cells |-> FALSE]
    /\ flagged = [p \in Cells |-> FALSE]
    /\ board = [p \in Cells |-> 0]
    /\ placed = FALSE
    /\ game_over = FALSE
    /\ victory = FALSE
    /\ last = Call("init", <<0, 0>>, "done", FALSE)
    /\ solver_in = <<>>
    /\ solver_out = NoResult
    /\ autoplay_running = FALSE
    /\ pending = "none"
    /\ depth = 0
    /\ call = Idle
    /\ version = 1

Spec3x3 == Init3x3 /\ [][Next]_vars

\* ------------------------------------------- get_solver_board, by itself
\* Any Board object of at most MaxViewCells cells: any mine layout with its
\* counts, any revealed and flagged bits.
InitView ==
    /\ rows \in 1 .. MaxViewCells
    /\ cols \in 1 .. MaxViewCells
    /\ rows * cols <= MaxViewCells
    /\ mines \in SUBSET Cells
    /\ mines_count = Cardinality(mines)
    /\ board = counts(mines)
    /\ placed = TRUE
    /\ revealed \in [Cells -> BOOLEAN]
    /\ flagged \in [Cells -> BOOLEAN]
    /\ game_over = FALSE
    /\ victory = FALSE
    /\ last = Call("init", <<0, 0>>, "done", FALSE)
    /\ solver_in = <<>>
    /\ solver_out = NoResult
    /\ autoplay_running = FALSE
    /\ pending = "none"
    /\ depth = 0
    /\ call = Idle
    /\ version = 1

\* solver_board = self.get_solver_board()
Classify ==
    /\ solver_in' = get_solver_board
    /\ last' = Call("get_solver_board", <<0, 0>>, "done", FALSE)
    /\ UNCHANGED <<boardvars, solver_out, loopvars, call>>

SpecView == InitView /\ [][Classify]_vars

\* ------------------------------------------------------ solution, by itself
\* The symbols the views are drawn from.
Symbols == {UNSEEN, FLAGGED, BOMB, "0", "1", "2"}
FewSymbols == {UNSEEN, FLAGGED, BOMB, "1"}

\* The views solution is called on: every view of at most MaxViewCells
\* cells over Symbols, and the 3 x 3 views that hold "1" or "2" at (0, 0)
\* and a symbol of FewSymbols everywhere else.
InitSolver ==
    /\ \/ /\ rows \in 1 .. MaxViewCells
          /\ cols \in 1 .. MaxViewCells
          /\ rows * cols <= MaxViewCells
          /\ solver_in \in [Cells -> Symbols]
       \/ /\ rows = 3
          /\ cols = 3
          /\ \E corner \in {"1", "2"}, rest \in [Cells \ {<<0, 0>>} -> FewSymbols] :
                solver_in = [p \in Cells |-> IF p = <<0, 0>> THEN corner ELSE rest[p]]
    /\ mines_count = 0
    /\ mines = {}
    /\ revealed = [p \in Cells |-> FALSE]
    /\ flagged = [p \in Cells |-> FALSE]
    /\ board = [p \in Cells |-> 0]
    /\ placed = FALSE
    /\ game_over = FALSE
    /\ victory = FALSE
    /\ last = Call("init", <<0, 0>>, "done", FALSE)
    /\ solver_out = NoResult
    /\ autoplay_running = FALSE
    /\ pending = "none"
    /\ depth = 0
    /\ call = Idle
    /\ version = 1

\* action, coords = solution(solver_board, self.rows, self.cols); how is
\* "again" for a call that follows another call on the same view.
Solve ==
    /\ solver_out' = solution(solver_in, rows, cols)
    /\ last' = Call("solution", <<0, 0>>,
                    IF last.op = "solution" THEN "again" ELSE "done", FALSE)
    /\ UNCHANGED <<boardvars, solver_in, loopvars, call>>

SpecSolver == InitSolver /\ [][Solve]_vars

\* ------------------------------------------------------------- properties
Won == game_over /\ victory
Lost == game_over /\ ~victory
InProgress == ~game_over

\* Adjacency stated by distance, not by enumeration of offsets.
Adj(p, q) == p # q /\ p[1] - q[1] \in -1 .. 1 /\ p[2] - q[2] \in -1 .. 1

RevealedSet == {p \in Cells : revealed[p]}
FlaggedSet == {p \in Cells : flagged[p]}
NonMineTotal == rows * cols - mines_count

\* C1: right after the reveal that placed the mines, neither its coordinate
\* nor any in-bounds 8-neighbour of it is a mine.
C1_SafeFirstReveal ==
    (last.op = "reveal" /\ last.first) =>
        \A p \in Cells : (p = last.cell \/ Adj(p, last.cell)) => p \notin mines

\* C1 witness: a first reveal placed at least one mine on a board where the
\* clicked cell has neighbours.
C1_Witness ==
    /\ last.op = "reveal" /\ last.first
    /\ mines # {}
    /\ \E p \in Cells : Adj(p, last.cell)

\* C2 as claimed: the outcome is won if and only if the number of revealed
\* cells equals rows*cols - mineCount.
C2_WonIffCount == Won <=> (Cardinality(RevealedSet) = NonMineTotal)

\* A board no effective call has touched since construction or reset.
Untouched == ~placed /\ ~game_over /\ RevealedSet = {} /\ FlaggedSet = {}

\* C2 amended: won implies that the revealed count equals rows*cols -
\* mineCount; and a state with that count is won, unless it is lost (the
\* count includes the revealed mine) or the board is still untouched with
\* mineCount = rows*cols.
C2_WinExact ==
    /\ Won => Cardinality(RevealedSet) = NonMineTotal
    /\ Cardinality(RevealedSet) = NonMineTotal =>
           \/ Won
           \/ Lost /\ (\E p \in mines : revealed[p])
           \/ Untouched /\ NonMineTotal = 0

\* C2 witness: a game won by a reveal on a board that holds mines.
C2_Witness == Won /\ last.op = "reveal" /\ placed /\ mines # {}

\* C3: no cell is both flagged and revealed.
C3_FlagRevealExclusive == \A p \in Cells : ~(flagged[p] /\ revealed[p])

\* C3 witness: a cascade ran past a flagged cell: a revealed zero-count cell
\* has a flagged neighbour.
C3_Witness ==
    /\ last.op = "reveal" /\ last.how = "done"
    /\ \E p, q \in Cells : Adj(p, q) /\ revealed[p] /\ board[p] = 0 /\ flagged[q]

\* The reveal that produced the state passed its guard and its target is a
\* zero-count cell.
ZeroReveal(l, b) == l.op = "reveal" /\ l.how = "done" /\ b[l.cell] = 0

\* The maximal 8-connected region of zero-count cells of b that contains c.
RECURSIVE ZeroRegionFrom(_, _)
ZeroRegionFrom(b, S) ==
    LET S2 == S \cup {q \in Cells : b[q] = 0 /\ \E p \in S : Adj(p, q)}
    IN  IF S2 = S THEN S ELSE ZeroRegionFrom(b, S2)

ZeroRegion(b, c) == ZeroRegionFrom(b, {c})

\* A region with the cells bordering it.
WithBorder(S) == S \cup {q \in Cells : \E p \in S : Adj(p, q)}

\* The cells reached from c by steps from a zero-count cell to a neighbour
\* that is neither flagged (flg) nor revealed before the call (rev).
RECURSIVE ReachFrom(_, _, _, _)
ReachFrom(b, rev, flg, S) ==
    LET S2 == S \cup {q \in Cells : /\ ~rev[q] /\ ~flg[q]
                                    /\ \E p \in S : b[p] = 0 /\ Adj(p, q)}
    IN  IF S2 = S THEN S ELSE ReachFrom(b, rev, flg, S2)

\* C4 as claimed: a reveal of an unrevealed, unflagged zero-count cell leaves
\* revealed exactly the previously revealed cells, the whole maximal
\* 8-connected zero-count region of the target and the cells bordering it.
C4_WholeRegion ==
    [][ZeroReveal(last', board') =>
         {p \in Cells : revealed'[p]} =
             RevealedSet \cup WithBorder(ZeroRegion(board', last'.cell))]_vars

\* C4 amended: such a reveal leaves revealed exactly the previously revealed
\* cells and the cells reached from the target by steps from a zero-count
\* cell to an 8-neighbour that is unflagged and was not revealed before the
\* call; flagged cells stay unrevealed and the cascade does not continue
\* through them or through cells revealed earlier.
C4_CascadeReach ==
    [][ZeroReveal(last', board') =>
         {p \in Cells : revealed'[p]} =
             RevealedSet \cup ReachFrom(board', revealed, flagged, {last'.cell})]_vars

\* C4 witness: after such a reveal, with no flag left on the board, a cell
\* of the target's zero region is still unrevealed: the cascade stopped at
\* zero-count cells revealed earlier, while their neighbours were flagged.
C4_Witness ==
    /\ ZeroReveal(last, board)
    /\ FlaggedSet = {}
    /\ \E q \in ZeroRegion(board, last.cell) : ~revealed[q]

\* The solver's answer on the view of the current board.
Sol == solution(get_solver_board, rows, cols)

\* A returned move agrees with the mine layout.
Sound(res) ==
    /\ res.action = REVEAL => \A i \in 1 .. Len(res.coords) : res.coords[i] \notin mines
    /\ res.action = FLAG => \A i \in 1 .. Len(res.coords) : res.coords[i] \in mines

\* Some cell of the view is a conclusive clue for check.
ClueFound ==
    \E p \in Cells : check(get_solver_board, p[1], p[2], rows, cols).kind = "move"

\* C5 as claimed: on every reachable board with its mines placed, what
\* solution returns under Reveal is no mine and under Flag is a mine.
C5_SolverSound == (placed /\ Sol.kind = "move") => Sound(Sol)

\* C5 amended: on a board that is not lost and whose flags all stand on
\* mines, a move solution derives from a clue cell (not the fallback guess)
\* reveals no mine and flags only mines.
C5_ClueSound ==
    (placed /\ ~Lost /\ FlaggedSet \subseteq mines /\ ClueFound) =>
        (Sol.kind = "move" /\ Sound(Sol))

\* C5 witness: with a flag standing on a mine, a clue makes solution flag
\* further cells.
C5_Witness ==
    /\ placed /\ ~Lost /\ FlaggedSet # {} /\ FlaggedSet \subseteq mines
    /\ ClueFound /\ Sol.kind = "move" /\ Sol.action = FLAG

\* C6: once the outcome is won or lost, every reveal and toggle_flag call
\* leaves the whole board state unchanged; so the outcome leaves inProgress
\* at most once and changes again only by a reset.
C6_TerminalFrozen == [][(game_over /\ last'.op # "reset") => UNCHANGED boardvars]_vars

\* C6 witness: a call returned early on a finished game.
C6_Witness == game_over /\ last.op \in {"reveal", "toggle_flag"} /\ last.how = "over"

\* C7: before mines are placed no cell is a mine; once placed, exactly
\* mines_count cells are mines (in Board.mines and in Board.board alike), and
\* the mine set stays the same under every later call except reset.
C7_MinesPlacedOnce ==
    /\ [](~placed => (mines = {} /\ \A p \in Cells : board[p] # MINE))
    /\ [](placed => (/\ Cardinality(mines) = mines_count
                     /\ {p \in Cells : board[p] = MINE} = mines))
    /\ [][(placed /\ last'.op # "reset") =>
             (placed' /\ mines' = mines /\ board' = board)]_vars

\* C7 witness: a later reveal ran on a board whose mines were already placed.
C7_Witness ==
    /\ placed /\ mines_count > 0 /\ Cardinality(mines) = mines_count
    /\ last.op = "reveal" /\ last.how = "done" /\ ~last.first

\* C8: once mines are placed, every non-mine cell stores the number of
\* mines among its in-bounds 8-neighbours.
C8_CountCorrect ==
    placed => \A p \in Cells \ mines : board[p] = Cardinality({q \in mines : Adj(p, q)})

\* C8 witness: in a state after the placing call, a cell counts two mines,
\* one of them on a diagonal.
C8_Witness ==
    /\ placed /\ ~last.first
    /\ \E p \in Cells \ mines :
          /\ board[p] = 2
          /\ \E q \in mines : Adj(p, q) /\ q[1] # p[1] /\ q[2] # p[2]

\* C9: under every call except reset, a revealed cell stays revealed.
C9_MonotonicReveal ==
    [][last'.op # "reset" => \A p \in Cells : revealed[p] => revealed'[p]]_vars

\* C9 witness: a later effective reveal, on a mine or not, left the cells
\* revealed before it revealed.
C9_Witness ==
    /\ last.op = "reveal" /\ last.how = "done" /\ ~last.first
    /\ \E p \in RevealedSet : p # last.cell /\ ~Adj(p, last.cell)

\* C10: on every view of a reachable board, a lost one included, solution
\* returns a move or raises its own no-unseen-cell exception, and nothing else.
C10_SolverTotal == Sol.kind \in {"move", "Exception"}

\* ------------------------------------------------- the solver's contract
View == get_solver_board

\* The view shows no Unseen cell.
NoUnseen == \A p \in Cells : View[p] # UNSEEN

\* C11: on every view that contains no Unseen cell, solution raises its
\* no-move exception and returns no action.
C11_NoMovesSignalled == NoUnseen => Sol.kind = "Exception"

\* The reference reading of a view: a Count(N) cell, its number, its Unseen
\* and its Flagged in-bounds neighbours.
CountCell(view, p) == view[p] \notin {UNSEEN, FLAGGED, BOMB}
CountOf(view, p) == CHOOSE n \in 0 .. 8 : str(n) = view[p]
UnseenNear(view, p) == {q \in Cells : Adj(p, q) /\ view[q] = UNSEEN}
FlaggedNear(view, p) == {q \in Cells : Adj(p, q) /\ view[q] = FLAGGED}

Conclusive(view, p) ==
    /\ CountCell(view, p)
    /\ UnseenNear(view, p) # {}
    /\ \/ Cardinality(FlaggedNear(view, p)) = CountOf(view, p)
       \/ CountOf(view, p) - Cardinality(FlaggedNear(view, p)) =
              Cardinality(UnseenNear(view, p))

RowMajorBefore(p, q) == p[1] < q[1] \/ (p[1] = q[1] /\ p[2] < q[2])

FirstClue(view) ==
    CHOOSE p \in Cells :
        /\ Conclusive(view, p)
        /\ \A q \in Cells : Conclusive(view, q) => (q = p \/ RowMajorBefore(p, q))

LastUnseen(view) ==
    CHOOSE p \in Cells :
        /\ view[p] = UNSEEN
        /\ \A q \in Cells : view[q] = UNSEEN => (q = p \/ RowMajorBefore(q, p))

\* C12: when the view holds a conclusive Count cell, solution returns the
\* move of the row-major-first one: (Reveal, U) if its flagged neighbours
\* number N, else (Flag, U), U its Unseen neighbours.
C12_ReferenceScan ==
    (\E p \in Cells : Conclusive(View, p)) =>
        LET p == FirstClue(View)
        IN  /\ Sol.kind = "move"
            /\ Sol.action = IF Cardinality(FlaggedNear(View, p)) = CountOf(View, p)
                                THEN REVEAL ELSE FLAG
            /\ Range(Sol.coords) = UnseenNear(View, p)
            /\ Len(Sol.coords) = Cardinality(UnseenNear(View, p))

\* C13: when the view holds no conclusive Count cell and at least one Unseen
\* cell, solution returns (Reveal, [p]), p the row-major-last Unseen cell.
C13_FallbackLastUnseen ==
    ((\A p \in Cells : ~Conclusive(View, p)) /\ ~NoUnseen) =>
        Sol = Move(REVEAL, <<LastUnseen(View)>>)

\* ------------------------------------------------ placement and frames
\* C14: no reveal call fails during mine placement (every configuration the
\* constructor accepts can be placed, whichever cell is revealed first).
C14_PlacementNeverFails == ~(last.op = "reveal" /\ last.how = "raised")

\* C15: on an in-progress board, a reveal of a flagged or of a revealed cell
\* and a toggle_flag of a revealed cell leave the whole board state
\* unchanged (so a first reveal aimed at a flagged cell places no mines).
C15_NoOpFrame ==
    [][\/ UNCHANGED boardvars
       \/ game_over
       \/ \A p \in Cells :
             /\ ~(/\ flagged[p] \/ revealed[p]
                  /\ last'.op = "reveal"
                  /\ Reveal(p[1], p[2]))
             /\ ~(/\ revealed[p]
                  /\ last'.op = "toggle_flag"
                  /\ ToggleFlag(p[1], p[2]))]_vars

\* C15 witness: on a board whose mines are not placed yet, a reveal aimed at
\* a flagged cell returned early, and the mines are still not placed.
C15_Witness ==
    /\ ~game_over /\ ~placed /\ mines = {} /\ mines_count > 0
    /\ last.op = "reveal" /\ last.how = "flagged"

\* C16: a toggle_flag on an in-progress board whose target is unrevealed
\* flips the flagged bit of one cell and changes nothing else, the outcome
\* included.
C16_FlagOnlyFlips ==
    [][(~game_over /\ last'.op = "toggle_flag" /\ last'.how = "done") =>
         /\ \E p \in Cells : flagged' = [flagged EXCEPT ![p] = ~flagged[p]]
         /\ UNCHANGED <<rows, cols, mines_count, mines, revealed, board, placed,
                        game_over, victory>>]_vars

\* C17: a reveal of an unrevealed, unflagged mine on an in-progress board
\* sets the outcome to lost and newly reveals that one cell; no other cell
\* is revealed, no flag changes and the game is not won.
C17_MineRevealLoses ==
    [][(last'.op = "reveal" /\ last'.how = "done" /\ last'.cell \in mines') =>
         /\ ~game_over /\ ~revealed[last'.cell] /\ ~flagged[last'.cell]
         /\ game_over' /\ ~victory'
         /\ {p \in Cells : revealed'[p]} = RevealedSet \cup {last'.cell}
         /\ UNCHANGED <<rows, cols, mines_count, mines, flagged, board, placed>>]_vars

\* C17 witness: a lost game whose revealed mine has an unrevealed, unflagged
\* neighbour, on a board where one more revealed cell would not have filled
\* the count of the victory test.
C17_Witness ==
    /\ Lost /\ last.op = "reveal" /\ last.how = "done" /\ last.cell \in mines
    /\ \E q \in Cells : Adj(q, last.cell) /\ ~revealed[q] /\ ~flagged[q]
    /\ Cardinality(RevealedSet) < NonMineTotal

\* The state reset() and the constructor leave.
Fresh ==
    /\ mines = {} /\ ~placed /\ ~game_over /\ ~victory
    /\ revealed = [p \in Cells |-> FALSE]
    /\ flagged = [p \in Cells |-> FALSE]
    /\ board = [p \in Cells |-> 0]

\* C18: after reset the board is in the state of a freshly constructed
\* board of the same dimensions and mine count; and an effective reveal on
\* a board without placed mines places them, mines_count of them, outside
\* the safe zone of its own coordinate.
C18_ResetFresh ==
    /\ [](last.op \in {"init", "reset"} => Fresh)
    /\ [][last'.op = "reset" => UNCHANGED <<rows, cols, mines_count>>]_vars
    /\ [][(~placed /\ last'.op = "reveal" /\ last'.how = "done") =>
            /\ last'.first /\ placed'
            /\ Cardinality(mines') = mines_count
            /\ \A p \in Cells :
                  (p = last'.cell \/ Adj(p, last'.cell)) => p \notin mines']_vars

\* C18 witness: a reset has run on a board that holds mines to place.
C18_Witness == last.op = "reset" /\ Fresh /\ mines_count > 0 /\ rows * cols > 1

\* ---------------------------------------------------- the window's play
\* C19: a cell of the classified view is the Mine symbol only if the game
\* is lost.
C19_MineOnlyWhenLost == (\E p \in Cells : View[p] = BOMB) => Lost

\* The Board fields a step leaves.
BoardNext ==
    [mines |-> mines', revealed |-> revealed', flagged |-> flagged', board |-> board',
     placed |-> placed', game_over |-> game_over', victory |-> victory']

\* C20: every step of the window that changes the board leaves what a
\* reveal call, a toggle_flag call, the calls of one autoplay step, or a
\* newly constructed board leave.
C20_OnlyBoardCalls ==
    [][\/ UNCHANGED boardvars
       \/ /\ UNCHANGED <<rows, cols, mines_count>>
          /\ \/ \E p \in Cells : \E o \in reveal(BoardNow, p[1], p[2]) : BoardNext = o.st
             \/ \E p \in Cells : BoardNext = toggle_flag(BoardNow, p[1], p[2]).st
             \/ /\ Sol.kind = "move"
                /\ \E o \in apply_coords(Sol.action, Sol.coords, 1,
                                         Outcome(BoardNow, "done", FALSE)) :
                      BoardNext = o.st
       \/ /\ last'.op \in {"new_game", "apply_settings"}
          /\ NewBoard(rows', cols', mines_count')]_vars

\* ------------------------------------------------ what the view depends on
\* The grid of another layout shows the same on every revealed, unflagged
\* cell.
SameVisible(b2) == \A p \in Cells : (revealed[p] /\ ~flagged[p]) => b2[p] = board[p]

Classified == last.op = "get_solver_board"

\* C21: each cell of the view is Flagged if the cell is flagged, else Unseen
\* if it is unrevealed, else Mine if it is a mine, else the count of its
\* adjacent mines; and a board of the same size with the same revealed and
\* flagged bits and the same values on the revealed unflagged cells has the
\* same view, whatever its mine layout.
C21_ViewFromVisible ==
    Classified =>
        /\ \A p \in Cells :
              solver_in[p] = IF flagged[p] THEN FLAGGED
                             ELSE IF ~revealed[p] THEN UNSEEN
                             ELSE IF p \in mines THEN BOMB
                             ELSE str(Cardinality({q \in mines : Adj(p, q)}))
        /\ \A ms \in SUBSET Cells :
              LET b2 == counts(ms)
              IN  SameVisible(b2) => solver_board(revealed, flagged, b2) = solver_in

\* C21 witness: a classified board with a revealed count cell, a revealed
\* mine and an unrevealed cell, and another layout with a different number
\* of mines that shows the same.
C21_Witness ==
    /\ Classified
    /\ \E p, q, u \in Cells :
          /\ solver_in[p] = BOMB /\ solver_in[u] = UNSEEN
          /\ solver_in[q] \notin {BOMB, UNSEEN, FLAGGED}
    /\ \E ms \in SUBSET Cells :
          Cardinality(ms) # Cardinality(mines) /\ SameVisible(counts(ms))

\* ------------------------------------------------------- worked scenario
\* C22: on a 3 x 3 board with one mine and no flag, when the first reveal
\* is reveal(0, 0) and the mine is placed at (2, 2), the call reveals the
\* eight other cells, leaves (2, 2) unrevealed and wins the game.
C22_CornerRevealWins ==
    (/\ rows = 3 /\ cols = 3 /\ mines_count = 1
     /\ last.op = "reveal" /\ last.first /\ last.cell = <<0, 0>>
     /\ mines = {<<2, 2>>} /\ FlaggedSet = {}) =>
        (RevealedSet = Cells \ {<<2, 2>>} /\ Won)

\* C22 witness: that reveal has just run.
C22_Witness ==
    /\ rows = 3 /\ cols = 3 /\ mines_count = 1
    /\ last.op = "reveal" /\ last.first /\ last.cell = <<0, 0>>
    /\ mines = {<<2, 2>>} /\ FlaggedSet = {}
    /\ ~revealed[<<2, 2>>] /\ Cardinality(RevealedSet) = 8

\* ---------------------------------------------------- solution on any view
Solved == last.op = "solution"

\* The in-bounds neighbours of (0, 0) that show the symbol sym.
CornerNear(sym) == {q \in Cells : Adj(<<0, 0>>, q) /\ solver_in[q] = sym}

\* C23: on a 3 x 3 view with Count(1) at (0, 0), one Flagged cell among the
\* neighbours of (0, 0) and (1, 1) its only Unseen neighbour, solution
\* returns (Reveal, [(1, 1)]), whatever the other cells hold.
C23_CornerReveal ==
    (/\ Solved /\ rows = 3 /\ cols = 3
     /\ solver_in[<<0, 0>>] = "1"
     /\ Cardinality(CornerNear(FLAGGED)) = 1
     /\ CornerNear(UNSEEN) = {<<1, 1>>}) =>
        solver_out = Move(REVEAL, << <<1, 1>> >>)

\* C23 witness: such a view has been solved, and a later cell of it is a
\* conclusive clue of its own and another one a revealed mine.
C23_Witness ==
    /\ Solved /\ rows = 3 /\ cols = 3
    /\ solver_in[<<0, 0>>] = "1"
    /\ Cardinality(CornerNear(FLAGGED)) = 1
    /\ CornerNear(UNSEEN) = {<<1, 1>>}
    /\ solver_out.kind = "move"
    /\ \E p \in Cells : p # <<0, 0>> /\ check(solver_in, p[1], p[2], rows, cols).kind = "move"
    /\ \E p \in Cells : solver_in[p] = BOMB

\* C24: on a view with Count(2) at (0, 0), no Flagged neighbour of (0, 0)
\* and exactly two Unseen neighbours of (0, 0), solution returns Flag with
\* exactly those two coordinates, whatever the other cells hold.
C24_CornerFlag ==
    (/\ Solved
     /\ solver_in[<<0, 0>>] = "2"
     /\ CornerNear(FLAGGED) = {}
     /\ Cardinality(CornerNear(UNSEEN)) = 2) =>
        /\ solver_out.kind = "move" /\ solver_out.action = FLAG
        /\ Len(solver_out.coords) = 2
        /\ Range(solver_out.coords) = CornerNear(UNSEEN)

\* C24 witness: such a view has been solved, a 3 x 3 one whose third
\* neighbour of (0, 0) is a revealed mine.
C24_Witness ==
    /\ Solved /\ rows = 3
    /\ solver_in[<<0, 0>>] = "2"
    /\ CornerNear(FLAGGED) = {}
    /\ Cardinality(CornerNear(UNSEEN)) = 2
    /\ CornerNear(BOMB) # {}
    /\ solver_out.action = FLAG

C26_AutoplayStops == game_over => (~autoplay_running /\ pending = "none")

\* ------------------------------------------------- solver-driven play
\* C27: on an in-progress board whose flags all stand on mines, a move
\* solution derives from a clue cell reveals no mine and flags only mines;
\* and an autoplay_step taken on such a board leaves every flag on a mine
\* and loses the game only when no clue was found (by the fallback guess).
C27_ClueMovesSound ==
    /\ []((InProgress /\ FlaggedSet \subseteq mines /\ ClueFound) =>
             (Sol.kind = "move" /\ Sound(Sol)))
    /\ [][(last'.op = "autoplay_step" /\ InProgress /\ FlaggedSet \subseteq mines) =>
             /\ {p \in Cells : flagged'[p]} \subseteq mines'
             /\ (game_over' /\ ~victory') => ~ClueFound]_vars

\* C27 witness: an autoplay_step has left an in-progress board with a flag
\* on a mine, and a clue now lets solution reveal cells.
C27_Witness ==
    /\ last.op = "autoplay_step" /\ last.how = "done"
    /\ InProgress /\ FlaggedSet # {} /\ FlaggedSet \subseteq mines
    /\ ClueFound /\ Sol.kind = "move" /\ Sol.action = REVEAL

\* The Unseen cells of the classified view.
UnseenCount == Cardinality({p \in Cells : View[p] = UNSEEN})

\* Mines can be placed whichever cell is revealed first.
Placeable ==
    \A p \in Cells : ~sample_raises(available(p[1], p[2]), mines_count)

\* C28: an autoplay_step on an in-progress board either applies the move
\* solution returned and leaves strictly fewer Unseen cells in the view, or
\* finds no Unseen cell, solution raising its no-move exception, and changes
\* nothing; only on a board whose mines cannot be placed can the reveal
\* raise instead.  The Unseen count, at most rows * cols, so bounds the
\* steps before the game is won, lost or without moves.
C28_StepShrinksUnseen ==
    [][(last'.op = "autoplay_step" /\ InProgress) =>
         /\ UnseenCount <= rows * cols
         /\ \/ /\ Sol.kind = "move"
               /\ last'.how = "done"
               /\ UnseenCount' < UnseenCount
            \/ /\ Sol.kind = "Exception"
               /\ NoUnseen
               /\ last'.how = "caught"
               /\ UNCHANGED boardvars
            \/ /\ Sol.kind = "move"
               /\ last'.how = "raised"
               /\ ~placed /\ ~Placeable
               /\ UNCHANGED boardvars]_vars

\* C28 witness: a V2.0 step has been applied on a placeable board, the game
\* is still in progress and Unseen cells are left for further steps.
C28_Witness ==
    /\ version = 2 /\ last.op = "autoplay_step" /\ last.how = "done"
    /\ Placeable /\ placed /\ InProgress
    /\ UnseenCount > 0 /\ UnseenCount < rows * cols - 1

\* ------------------------------------------------------- revealed mines
\* The mines that are revealed.
RevealedMines == {p \in mines : revealed[p]}

\* C29: under reveal and toggle_flag calls, a lost board shows exactly one
\* revealed mine, and an in-progress or won board shows none.
C29_OneMineWhenLost ==
    /\ Lost => Cardinality(RevealedMines) = 1
    /\ ~Lost => RevealedMines = {}

\* C29 witness: a game with two mines, lost by a reveal after a cascade had
\* opened several cells.
C29_Witness ==
    /\ Lost /\ last.op = "reveal"
    /\ Cardinality(mines) = 2
    /\ \E p \in RevealedSet : board[p] = 0

\* ------------------------------------------------------ the first reveal
\* C30: when the reveal that placed the mines returns, its target is a
\* zero-count cell, the target and each of its unflagged neighbours are
\* revealed, and the game is in progress or won.
C30_FirstRevealOpens ==
    (last.op = "reveal" /\ last.first) =>
        /\ board[last.cell] = 0
        /\ revealed[last.cell]
        /\ \A q \in Cells : (Adj(q, last.cell) /\ ~flagged[q]) => revealed[q]
        /\ ~Lost

\* C30 witness: a first reveal placed mines next to a target that has a
\* flagged neighbour, left unrevealed, and an unflagged one.
C30_Witness ==
    /\ last.op = "reveal" /\ last.first /\ mines # {} /\ InProgress
    /\ \E q \in Cells : Adj(q, last.cell) /\ flagged[q] /\ ~revealed[q]
    /\ \E q \in Cells : Adj(q, last.cell) /\ ~flagged[q] /\ board[q] > 0

\* --------------------------------------------------- the cascade's loop
\* No cell occurs twice in the sequence.
NoRepeat(seq) == \A i, j \in 1 .. Len(seq) : seq[i] = seq[j] => i = j

\* The cells not revealed.
Unrevealed == Cardinality({p \in Cells : ~revealed[p]})

\* C31: the loop of reveal terminates, and marks and expands each cell at
\* most once per call: no cell is marked or expanded twice; the pops made
\* and the entries still stacked number at most one more than eight per
\* expanded cell; and every pop either marks a cell, leaving one cell fewer
\* unrevealed, or skips it and leaves the stack one entry shorter.
C31_CascadeTerminates ==
    /\ [](/\ NoRepeat(call.opened)
          /\ NoRepeat(call.expanded)
          /\ call.pops + Len(call.stack) <= 1 + 8 * Len(call.expanded)
          /\ Len(call.expanded) <= Len(call.opened)
          /\ Len(call.opened) <= rows * cols)
    /\ [][call'.pops = call.pops + 1 =>
            \/ Unrevealed' = Unrevealed - 1
            \/ /\ Unrevealed' = Unrevealed
               /\ Len(call'.stack) = Len(call.stack) - 1]_vars

\* C31 witness: a loop about to end after a coordinate had been pushed more
\* than once: more pops than marked cells, and several cells expanded.
C31_Witness ==
    /\ call.pc = "loop" /\ call.stack = <<>>
    /\ call.pops > Len(call.opened)
    /\ Len(call.expanded) >= 2

====
